---- MODULE Spec2Model ----
(***************************************************************************)
(* Binary Matrix-Market corpus codec of gensim/corpora/python_array.py     *)
(* (MmReaderArray, columnar layout, with its writer save_corpus) and       *)
(* gensim/corpora/struct_corpus.py (MmReader1 and MmReader2, interleaved   *)
(* layout).                                                                *)
(*                                                                         *)
(* A file is a sequence of bytes (0..255).  Integers are 32-bit two's      *)
(* complement and weights IEEE-754 binary32, both in little-endian native  *)
(* byte order.  A weight w is represented by the integer 2*w ("halves"):   *)
(* 5 is 2.5, -8 is -4.0.  Every weight of the model is exactly             *)
(* representable in binary32, as the data model's f32 weights are.         *)
(*                                                                         *)
(* A scenario: a caller's corpus is written to a file (save_corpus for the *)
(* columnar layout), a reader is constructed on it and iterated, one       *)
(* next() at a time, for up to MaxPasses passes (Spec); in SpecCut the     *)
(* file may be cut short before the reader is constructed.                 *)
(***************************************************************************)
EXTENDS Integers, Sequences, FiniteSets

VARIABLES
    corpus,  \* the caller's corpus: its statistics, its documents, and the
             \* document at which iterating it raises (failAt, 0: never)
    kind,    \* the reader class the file is written for and read with
    file,    \* the bytes of the file on disk
    wr,      \* save_corpus: the bytes written, whether the stream f is
             \* open, and how the call ended (none, returned, raised)
    cutAt,   \* the offset the file was cut at, -1 while it is whole
    rd,      \* the reader object: transposed, num_docs, num_terms, num_nnz
    it,      \* the current generator of __iter__: where it stands (pc), the
             \* stream position, the items yielded so far
    prev,    \* the generator of the pass before, as it was left
    npass    \* the number of passes started

vars == <<corpus, kind, file, wr, cutAt, rd, it, prev, npass>>

\* ------------------------------------------------------------------ bounds

\* Most documents a corpus supplies, and most the statistics declare.
MaxDocs == 2
\* Most entries of one document.
MaxLen == 2
\* Most iteration passes over one reader.
MaxPasses == 2

\* The (term_id, weight) entries documents are built from: (1, 2.5) and
\* (2, -4.0).
EntrySeq == << <<1, 5>>, <<2, -8>> >>
EntryPool == {EntrySeq[i] : i \in 1..Len(EntrySeq)}

\* The (num_terms, num_nnz) statistics a caller declares.
StatPool == {<<70000, 258>>}

\* First doc_id of the records of an interleaved file.
IdBases == {5}

Kinds == {"MmReaderArray", "MmReader1", "MmReader2"}

\* ------------------------------------------------------------ primitives

Min(a, b) == IF a <= b THEN a ELSE b

RECURSIVE Pow2(_)
Pow2(n) == IF n <= 0 THEN 1 ELSE 2 * Pow2(n - 1)

\* floor(log2 n) for n >= 1
RECURSIVE Log2(_)
Log2(n) == IF n <= 1 THEN 0 ELSE 1 + Log2(n \div 2)

\* f.read(n) at position pos: at most n bytes, fewer at the end of the file.
read(f, pos, n) == SubSeq(f, pos + 1, Min(pos + n, Len(f)))

\* The four bytes of a C int ('i'), little-endian two's complement.
pack_i(v) ==
    << v % 256, (v \div 256) % 256, (v \div 65536) % 256, (v \div 16777216) % 256 >>

unpack_i(b) ==
    b[1] + 256 * b[2] + 65536 * b[3]
      + 16777216 * (IF b[4] >= 128 THEN b[4] - 256 ELSE b[4])

\* The binary32 bit pattern of the magnitude m/2 (m >= 0), sign bit clear:
\* biased exponent in bits 23..30, fraction in bits 0..22.
Float32Bits(m) ==
    IF m = 0 THEN 0
    ELSE LET e == Log2(m)
         IN  (126 + e) * 8388608 + (m - Pow2(e)) * Pow2(23 - e)

\* The four bytes of a C float ('f') holding h/2.
pack_f(h) ==
    LET bits == Float32Bits(IF h < 0 THEN 0 - h ELSE h)
    IN  << bits % 256, (bits \div 256) % 256, (bits \div 65536) % 256,
           (bits \div 16777216) + (IF h < 0 THEN 128 ELSE 0) >>

\* The value, in halves, of the binary32 in four bytes.  Magnitudes below
\* 2^-8 are cut to 0 and those of 2^30 and more to 2^30: the integers here
\* cannot hold them, and no weight written to a file decodes to one.
unpack_f(b) ==
    LET bits == b[1] + 256 * b[2] + 65536 * b[3] + 16777216 * (b[4] % 128)
        e    == (bits \div 8388608) - 126
        sig  == 8388608 + (bits % 8388608)
        mag  == IF bits = 0 \/ e < -7 THEN 0
                ELSE IF e > 29 THEN 1073741824
                ELSE IF e >= 23 THEN sig * Pow2(e - 23)
                ELSE sig \div Pow2(23 - e)
    IN  IF b[4] >= 128 THEN 0 - mag ELSE mag

\* array.array(code, items).tofile / struct.pack of a run of items.
RECURSIVE pack_ints(_)
pack_ints(s) == IF s = <<>> THEN <<>> ELSE pack_i(Head(s)) \o pack_ints(Tail(s))

RECURSIVE pack_floats(_)
pack_floats(s) == IF s = <<>> THEN <<>> ELSE pack_f(Head(s)) \o pack_floats(Tail(s))

\* The items of a byte string that is a whole number of 4-byte items.
RECURSIVE unpack_ints(_)
unpack_ints(b) ==
    IF Len(b) < 4 THEN <<>>
    ELSE <<unpack_i(SubSeq(b, 1, 4))>> \o unpack_ints(SubSeq(b, 5, Len(b)))

RECURSIVE unpack_floats(_)
unpack_floats(b) ==
    IF Len(b) < 4 THEN <<>>
    ELSE <<unpack_f(SubSeq(b, 1, 4))>> \o unpack_floats(SubSeq(b, 5, Len(b)))

\* Python values an iteration yields: a list of (termid, value) tuples, or
\* the zip of the two arrays.
PyList(s) == [type |-> "list", val |-> s]
PyZip(a, b) == [type |-> "zip", val |-> [i \in 1..Min(Len(a), Len(b)) |-> <<a[i], b[i]>>]]

\* ---------------------------------------------------------------- writers

\* The term ids and the weights of a document, in entry order.
termids_of(doc) == [i \in 1..Len(doc) |-> doc[i][1]]
values_of(doc) == [i \in 1..Len(doc) |-> doc[i][2]]

\* array_record with the two arrays written in the other order, the values
\* first.
array_record_values_first(docid, doc) ==
    pack_ints(<<docid, Len(doc)>>) \o pack_floats(values_of(doc)) \o pack_ints(termids_of(doc))

\* One columnar record: the sub-header (docid, doc_length), the term ids as
\* one array, then the values as one array.
array_record(docid, doc) ==
    pack_ints(<<docid, Len(doc)>>) \o pack_ints(termids_of(doc)) \o pack_floats(values_of(doc))

\* The loop of save_corpus over enumerate(corpus), from the i-th document
\* (1-based; its docid is i - 1).  The corpus iterable raises when asked for
\* document failAt (0: it never raises); the exception leaves the loop and
\* save_corpus, past f.close().
RECURSIVE save_documents(_, _, _, _)
save_documents(docs, i, failAt, bytes) ==
    IF i = failAt THEN [file |-> bytes, open |-> TRUE, outcome |-> "raised"]
    ELSE IF i > Len(docs) THEN [file |-> bytes, open |-> FALSE, outcome |-> "returned"]
    ELSE save_documents(docs, i + 1, failAt, bytes \o array_record(i - 1, docs[i]))

\* MmReaderArray.save_corpus(fname, corpus): the header from the corpus'
\* statistics, then every document the corpus supplies.
save_corpus(c) ==
    save_documents(c.docs, 1, c.failAt,
                   pack_ints(<<c.num_docs, c.num_terms, c.num_nnz>>))

\* One interleaved record: the sub-header, then (term_id, weight) pairs.
RECURSIVE interleaved_entries(_)
interleaved_entries(doc) ==
    IF doc = <<>> THEN <<>>
    ELSE pack_i(Head(doc)[1]) \o pack_f(Head(doc)[2]) \o interleaved_entries(Tail(doc))

interleaved_record(docid, doc) ==
    pack_ints(<<docid, Len(doc)>>) \o interleaved_entries(doc)

RECURSIVE interleaved_documents(_, _, _)
interleaved_documents(docs, i, base) ==
    IF i > Len(docs) THEN <<>>
    ELSE interleaved_record(base + i - 1, docs[i]) \o interleaved_documents(docs, i + 1, base)

\* The interleaved file of a corpus (the layout MmReader1 and MmReader2
\* read; its writer is not part of these sources).
interleaved_file(c) ==
    pack_ints(<<c.num_docs, c.num_terms, c.num_nnz>>)
      \o interleaved_documents(c.docs, 1, c.idBase)

\* ---------------------------------------------------------------- readers

\* read_headers: (num_docs, num_terms, num_nnz) from the first 12 bytes.
\* array.fromfile and struct.unpack both raise on fewer than 12 bytes.
read_headers(k, f) ==
    LET b == read(f, 0, 12)
    IN  IF Len(b) # 12 THEN [ok |-> FALSE, header |-> <<>>]
        ELSE [ok |-> TRUE, header |-> unpack_ints(b)]

\* skip_headers(input_file): reads the 12 header bytes and drops them.
skip_headers(k, f, pos) ==
    LET b == read(f, pos, 12)
    IN  [ok |-> Len(b) = 12, pos |-> pos + Len(b)]

\* A decode step that raised (struct.error, EOFError, ValueError).
Raised(pos) == [ok |-> FALSE, item |-> PyList(<<>>), pos |-> pos]

\* array_document taking whatever bytes are left for the two arrays, as
\* frombytes(f.read(n)) would, instead of raising on a short read.
array_document_short(f, pos) ==
    LET hb == read(f, pos, 8)
    IN  IF Len(hb) # 8 THEN Raised(pos + Len(hb))
        ELSE
          LET doc_header == unpack_ints(hb)
              doc_length == doc_header[2]
              tb == read(f, pos + 8, 4 * doc_length)
              vb == read(f, pos + 8 + Len(tb), 4 * doc_length)
          IN  IF doc_length < 0 THEN Raised(pos + 8)
              ELSE [ok |-> TRUE,
                    item |-> PyZip(unpack_ints(tb), unpack_floats(vb)),
                    pos |-> pos + 8 + Len(tb) + Len(vb)]

\* MmReaderArray: the body of one loop iteration.
array_document(f, pos) ==
    LET hb == read(f, pos, 8)
    IN  IF Len(hb) # 8 THEN Raised(pos + Len(hb))
        ELSE
          LET doc_header == unpack_ints(hb)
              doc_length == doc_header[2]
              tb == read(f, pos + 8, 4 * doc_length)
              vb == read(f, pos + 8 + Len(tb), 4 * doc_length)
          IN  IF doc_length < 0 THEN Raised(pos + 8)
              ELSE IF Len(tb) # 4 * doc_length THEN Raised(pos + 8 + Len(tb))
              ELSE IF Len(vb) # 4 * doc_length THEN Raised(pos + 8 + Len(tb) + Len(vb))
              ELSE [ok |-> TRUE,
                    item |-> PyZip(unpack_ints(tb), unpack_floats(vb)),
                    pos |-> pos + 8 + 8 * doc_length]

\* MmReader1: the inner loop, one 'i f' pair per read.  The swap of line 128
\* assigns docid too, so the next entry swaps with this entry's termid.
RECURSIVE reader1_entries(_, _, _, _, _, _)
reader1_entries(f, pos, n, docid, transposed, document) ==
    IF n <= 0 THEN [ok |-> TRUE, item |-> PyList(document), pos |-> pos]
    ELSE LET b == read(f, pos, 8)
         IN  IF Len(b) # 8 THEN Raised(pos + Len(b))
             ELSE LET termid == unpack_i(SubSeq(b, 1, 4))
                      value  == unpack_f(SubSeq(b, 5, 8))
                      termid2 == IF transposed THEN termid ELSE docid
                      docid2  == IF transposed THEN docid ELSE termid
                  IN  reader1_entries(f, pos + 8, n - 1, docid2, transposed,
                                      Append(document, <<termid2, value>>))

\* reader1_document reading the next record's sub-header before it yields.
reader1_document_ahead(f, pos, transposed) ==
    LET hb == read(f, pos, 8)
    IN  IF Len(hb) # 8 THEN Raised(pos + Len(hb))
        ELSE LET h == unpack_ints(hb)
                 d == reader1_entries(f, pos + 8, h[2], h[1], transposed, <<>>)
             IN  IF d.ok THEN [d EXCEPT !.pos = d.pos + Len(read(f, d.pos, 8))] ELSE d

reader1_document(f, pos, transposed) ==
    LET hb == read(f, pos, 8)
    IN  IF Len(hb) # 8 THEN Raised(pos + Len(hb))
        ELSE LET h == unpack_ints(hb)
             IN  reader1_entries(f, pos + 8, h[2], h[1], transposed, <<>>)

\* reader2_entries swapping every entry with the sub-header's docid, which
\* it leaves as read.
reader2_entries_same_id(b, docid, transposed, document) ==
    [i \in 1..(Len(b) \div 8) |->
        << IF transposed THEN unpack_i(SubSeq(b, 8 * i - 7, 8 * i - 4)) ELSE docid,
           unpack_f(SubSeq(b, 8 * i - 3, 8 * i)) >>]

\* MmReader2: the pairs of one bulk unpack, walked two fields at a time,
\* with the same swap.
RECURSIVE reader2_entries(_, _, _, _)
reader2_entries(b, docid, transposed, document) ==
    IF Len(b) < 8 THEN document
    ELSE LET termid == unpack_i(SubSeq(b, 1, 4))
             value  == unpack_f(SubSeq(b, 5, 8))
             termid2 == IF transposed THEN termid ELSE docid
             docid2  == IF transposed THEN docid ELSE termid
         IN  reader2_entries(SubSeq(b, 9, Len(b)), docid2, transposed,
                             Append(document, <<termid2, value>>))

reader2_document(f, pos, transposed) ==
    LET hb == read(f, pos, 8)
    IN  IF Len(hb) # 8 THEN Raised(pos + Len(hb))
        ELSE LET h == unpack_ints(hb)
                 \* 8 * doc_length; a doc_length beyond the file's length
                 \* asks for more bytes than there are either way
                 size == IF h[2] > 0 THEN 8 * Min(h[2], Len(f)) ELSE 0
                 b == read(f, pos + 8, size)
             IN  IF Len(b) # size THEN Raised(pos + 8 + Len(b))
                 ELSE [ok |-> TRUE,
                       item |-> PyList(reader2_entries(b, h[1], transposed, <<>>)),
                       pos |-> pos + 8 + size]

\* One loop iteration of a reader's __iter__.
decode_document(k, f, pos, transposed) ==
    IF k = "MmReaderArray" THEN array_document(f, pos)
    ELSE IF k = "MmReader1" THEN reader1_document(f, pos, transposed)
    ELSE reader2_document(f, pos, transposed)

\* iter_loop running one iteration too many, range(self.num_docs + 1).
iter_loop_one_more(k, f, r, pos, yielded) ==
    IF Len(yielded) >= r.num_docs + 1
    THEN [pc |-> "done", pos |-> pos, yielded |-> yielded]
    ELSE LET d == decode_document(k, f, pos, r.transposed)
         IN  IF d.ok
             THEN [pc |-> "suspended", pos |-> d.pos, yielded |-> Append(yielded, d.item)]
             ELSE [pc |-> "failed", pos |-> d.pos, yielded |-> yielded]

\* The loop `for _ in range(self.num_docs)` from stream position pos with
\* the documents yielded so far: the next document is decoded and yielded,
\* the decode raises, or the range is exhausted and the generator returns.
iter_loop(k, f, r, pos, yielded) ==
    IF Len(yielded) >= r.num_docs
    THEN [pc |-> "done", pos |-> pos, yielded |-> yielded]
    ELSE LET d == decode_document(k, f, pos, r.transposed)
         IN  IF d.ok
             THEN [pc |-> "suspended", pos |-> d.pos, yielded |-> Append(yielded, d.item)]
             ELSE [pc |-> "failed", pos |-> d.pos, yielded |-> yielded]

\* open_pos for an input that is read on from where the last pass left it.
open_pos_kept(p) == p

\* The stream position a fresh pass starts from, given the offset p the
\* pass before it stopped at: smart_open opens the input anew, at offset 0.
open_pos(p) == 0

\* next() on the generator of __iter__.  The first next() opens the input
\* and skips the header; every next() runs the loop to its next yield.
resume(k, f, r, g) ==
    IF g.pc = "created"
    THEN LET s == skip_headers(k, f, open_pos(g.pos))
         IN  IF s.ok THEN iter_loop(k, f, r, s.pos, g.yielded)
             ELSE [pc |-> "failed", pos |-> s.pos, yielded |-> g.yielded]
    ELSE iter_loop(k, f, r, g.pos, g.yielded)

\* ------------------------------------------------------------------ state

\* Documents of at most MaxLen entries, and corpora of at most MaxDocs.
SeqsUpTo(S, n) == UNION {[1..m -> S] : m \in 0..n}

Docs == SeqsUpTo(EntryPool, MaxLen)

NoWriter == [file |-> <<>>, open |-> FALSE, outcome |-> "none"]
NoReader == [state |-> "none", transposed |-> TRUE,
             num_docs |-> 0, num_terms |-> 0, num_nnz |-> 0]
NoPass == [pc |-> "none", pos |-> 0, yielded |-> <<>>]

Init ==
    /\ kind \in Kinds
    /\ \E docs \in SeqsUpTo(Docs, MaxDocs), n \in 0..MaxDocs, st \in StatPool,
          fa \in 0..(MaxDocs + 1), base \in IdBases :
          /\ fa <= Len(docs) + 1
          /\ (kind # "MmReaderArray" => fa = 0)
          /\ corpus = [num_docs |-> n, num_terms |-> st[1], num_nnz |-> st[2],
                       docs |-> docs, failAt |-> fa, idBase |-> base]
    /\ file = <<>>
    /\ wr = NoWriter
    /\ cutAt = -1
    /\ rd = NoReader
    /\ it = NoPass
    /\ prev = NoPass
    /\ npass = 0

\* MmReaderArray.save_corpus(fname, corpus), the whole call.
SaveCorpus ==
    /\ kind = "MmReaderArray"
    /\ wr.outcome = "none"
    /\ wr' = save_corpus(corpus)
    /\ file' = wr'.file
    /\ UNCHANGED <<corpus, kind, cutAt, rd, it, prev, npass>>

\* An interleaved file of the corpus is put in place for MmReader1/2.
WriteInterleaved ==
    /\ kind # "MmReaderArray"
    /\ wr.outcome = "none"
    /\ wr' = [file |-> interleaved_file(corpus), open |-> FALSE, outcome |-> "returned"]
    /\ file' = wr'.file
    /\ UNCHANGED <<corpus, kind, cutAt, rd, it, prev, npass>>

\* The finished file, as written, is cut at a byte offset before its end.
Truncate ==
    /\ wr.outcome = "returned"
    /\ rd.state = "none"
    /\ cutAt = -1
    /\ file = wr.file
    /\ \E cut \in 0..(Len(file) - 1) :
          /\ cutAt' = cut
          /\ file' = SubSeq(file, 1, cut)
    /\ UNCHANGED <<corpus, kind, wr, rd, it, prev, npass>>

\* Reader(input, transposed): __init__ stores the arguments and reads the
\* header; an exception of read_headers leaves no reader.
Construct ==
    /\ wr.outcome = "returned"
    /\ rd.state = "none"
    /\ \E transposed \in BOOLEAN :
          LET h == read_headers(kind, file)
          IN  rd' = IF h.ok
                    THEN [state |-> "ready", transposed |-> transposed,
                          num_docs |-> h.header[1], num_terms |-> h.header[2],
                          num_nnz |-> h.header[3]]
                    ELSE [NoReader EXCEPT !.state = "failed"]
    /\ UNCHANGED <<corpus, kind, file, wr, cutAt, it, prev, npass>>

\* iter(reader): a new generator; nothing of __iter__'s body has run yet.
\* The pass before it has completed, failed or been abandoned.
StartPass ==
    /\ rd.state = "ready"
    /\ it.pc \in {"none", "done", "failed", "closed"}
    /\ npass < MaxPasses
    /\ prev' = it
    /\ it' = [pc |-> "created", pos |-> it.pos, yielded |-> <<>>]
    /\ npass' = npass + 1
    /\ UNCHANGED <<corpus, kind, file, wr, cutAt, rd>>

\* next(generator)
NextDoc ==
    /\ it.pc \in {"created", "suspended"}
    /\ it' = resume(kind, file, rd, it)
    /\ UNCHANGED <<corpus, kind, file, wr, cutAt, rd, prev, npass>>

\* The caller drops the generator mid-pass: GeneratorExit leaves the with
\* block, which closes the stream.
Abandon ==
    /\ it.pc = "suspended"
    /\ it' = [it EXCEPT !.pc = "closed"]
    /\ UNCHANGED <<corpus, kind, file, wr, cutAt, rd, prev, npass>>

\* The operations on a file that stays as written.
Next ==
    \/ SaveCorpus
    \/ WriteInterleaved
    \/ Construct
    \/ StartPass
    \/ NextDoc
    \/ Abandon

Spec == Init /\ [][Next]_vars

\* Files that may be cut short before a reader opens them: corpora whose
\* statistics declare no more documents than are written, so that the file
\* is well-formed before the cut.  The entries of a document follow from
\* its place and its length (neighbouring entries differ): what a cut does
\* depends on the lengths of the records.
InitCut ==
    /\ Init
    /\ corpus.num_docs <= Len(corpus.docs)
    /\ corpus.failAt = 0
    /\ \A j \in 1..Len(corpus.docs) : \A i \in 1..Len(corpus.docs[j]) :
          corpus.docs[j][i] = EntrySeq[((i + j) % Len(EntrySeq)) + 1]

\* A pass over a cut file is run until it ends.
NextCut ==
    \/ SaveCorpus
    \/ WriteInterleaved
    \/ Truncate
    \/ Construct
    \/ StartPass
    \/ NextDoc

SpecCut == InitCut /\ [][NextCut]_vars

\* ------------------------------------------------------- the file format

\* The offset just past n complete records that start at offset pos of f
\* (a record takes 8 + 8 * doc_length bytes), or -1 when f does not hold
\* n complete records there.
RECURSIVE records_end(_, _, _)
records_end(f, pos, n) ==
    IF n <= 0 THEN pos
    ELSE IF pos + 8 > Len(f) THEN -1
    ELSE LET doc_length == unpack_i(SubSeq(f, pos + 5, pos + 8))
         IN  IF doc_length < 0 \/ pos + 8 + 8 * doc_length > Len(f) THEN -1
             ELSE records_end(f, pos + 8 + 8 * doc_length, n - 1)

\* A header followed by at least n complete records.
WellFormed(f, n) == Len(f) >= 12 /\ n >= 0 /\ records_end(f, 12, n) >= 0

\* The doc_id in the sub-header of the k-th record of f (k >= 1).
record_id(f, k) ==
    LET pos == records_end(f, 12, k - 1) IN unpack_i(SubSeq(f, pos + 1, pos + 4))

IsPrefix(a, b) == Len(a) <= Len(b) /\ \A i \in 1..Len(a) : a[i] = b[i]

\* The entries of the items yielded so far.
Entries(items) == [i \in 1..Len(items) |-> items[i].val]

\* The entries of a document with the document id in place of every
\* entry's term id.
Swapped(d, entries) == [i \in 1..Len(entries) |-> <<d, entries[i][2]>>]

\* --------------------------------------------------------------- claims

\* C1: on a well-formed file (a header and at least num_docs complete
\* records) a pass never fails, and when it ends it has yielded exactly
\* num_docs items, whatever the sub-headers and the other statistics hold.
C1_CountInvariant ==
    (rd.state = "ready" /\ WellFormed(file, rd.num_docs)) =>
        /\ it.pc # "failed"
        /\ Len(it.yielded) <= rd.num_docs
        /\ (it.pc = "done" => Len(it.yielded) = rd.num_docs)

\* A finished pass of MaxDocs items over a file holding an empty record.
C1_Witness ==
    /\ rd.state = "ready" /\ WellFormed(file, rd.num_docs)
    /\ it.pc = "done" /\ rd.num_docs = MaxDocs /\ Len(it.yielded) = MaxDocs
    /\ \E k \in 1..Len(it.yielded) : it.yielded[k].val = <<>>

\* C2: a corpus of num_docs documents written by save_corpus and read back
\* by MmReaderArray (transposed=True) gives the declared statistics and the
\* same documents in the same order with the same entries in the same order.
C2_ColumnarRoundTrip ==
    (/\ kind = "MmReaderArray" /\ wr.outcome = "returned" /\ cutAt = -1
     /\ corpus.num_docs = Len(corpus.docs)
     /\ rd.state = "ready" /\ rd.transposed) =>
        /\ rd.num_docs = corpus.num_docs
        /\ rd.num_terms = corpus.num_terms
        /\ rd.num_nnz = corpus.num_nnz
        /\ it.pc # "failed"
        /\ IsPrefix(Entries(it.yielded), corpus.docs)
        /\ (it.pc = "done" => Entries(it.yielded) = corpus.docs)

\* A finished round trip of MaxDocs documents, one of them with two
\* different entries.
C2_Witness ==
    /\ kind = "MmReaderArray" /\ wr.outcome = "returned"
    /\ corpus.num_docs = Len(corpus.docs) /\ Len(corpus.docs) = MaxDocs
    /\ rd.state = "ready" /\ rd.transposed /\ it.pc = "done"
    /\ \E k \in 1..Len(it.yielded) :
          /\ Len(it.yielded[k].val) >= 2
          /\ it.yielded[k].val[1] # it.yielded[k].val[2]

\* C3: MmReader1 and MmReader2 with transposed=False yield, for the record
\* with sub-header id d and entries (t_1,w_1)..(t_n,w_n), the document
\* (d,w_1)..(d,w_n): the transposed=True decode with d in place of every
\* entry's term id.
C3_TranspositionSymmetry ==
    (/\ kind \in {"MmReader1", "MmReader2"}
     /\ rd.state = "ready" /\ ~rd.transposed) =>
        \A k \in 1..Len(it.yielded) :
            it.yielded[k].val =
                Swapped(record_id(file, k),
                        decode_document(kind, file, records_end(file, 12, k - 1), TRUE).item.val)

\* C4: MmReaderArray with transposed=False yields every entry with the
\* sub-header id of its record in place of the stored term id.
C4_ColumnarSwap ==
    (/\ kind = "MmReaderArray"
     /\ rd.state = "ready" /\ ~rd.transposed) =>
        \A k \in 1..Len(it.yielded) :
            it.yielded[k].val =
                Swapped(record_id(file, k),
                        decode_document(kind, file, records_end(file, 12, k - 1), TRUE).item.val)

\* C7: save_corpus does not return normally when the declared num_docs
\* differs from the number of documents the corpus supplied.
C7_MismatchIsAnError ==
    (kind = "MmReaderArray" /\ wr.outcome = "returned") =>
        corpus.num_docs = Len(corpus.docs)

\* C8: whenever save_corpus has ended, by returning or by raising, the
\* destination stream is closed.
C8_StreamClosedOnExit ==
    (kind = "MmReaderArray" /\ wr.outcome \in {"returned", "raised"}) => ~wr.open

\* C9: when the k-th document has been yielded the stream has been read up
\* to the end of the k-th record exactly: the 12 header bytes and the
\* 8 + 8 * doc_length bytes of each of the first k records.
C9_OneDocumentAtATime ==
    (rd.state = "ready" /\ it.pc = "suspended") =>
        it.pos = records_end(file, 12, Len(it.yielded))

\* The first of at least two documents has been yielded, and the file
\* holds a further non-empty record that has not been read.
C9_Witness ==
    /\ rd.state = "ready" /\ it.pc = "suspended"
    /\ Len(it.yielded) = 1 /\ rd.num_docs >= 2
    /\ Len(it.yielded[1].val) >= 1
    /\ records_end(file, 12, 2) > it.pos + 8

\* C10: with transposed=True the k-th yielded item is the pair (doc_id of
\* the k-th record's sub-header, list of that record's entries).
C10_YieldsIdAndEntries ==
    (rd.state = "ready" /\ rd.transposed) =>
        \A k \in 1..Len(it.yielded) :
            /\ it.yielded[k].type = "tuple"
            /\ it.yielded[k].val[1] = record_id(file, k)

\* The records of the uncut file that lie wholly before the cut.
WhollyBefore ==
    Cardinality({k \in 1..corpus.num_docs : records_end(wr.file, 12, k) <= cutAt})

\* The file was well-formed and has been cut before the end of its
\* num_docs-th record.
CutShort ==
    /\ cutAt >= 0
    /\ WellFormed(wr.file, corpus.num_docs)
    /\ cutAt < records_end(wr.file, 12, corpus.num_docs)

SamePasses ==
    npass >= 2 =>
        /\ IsPrefix(it.yielded, prev.yielded) \/ IsPrefix(prev.yielded, it.yielded)
        /\ (prev.pc = "done" =>
              it.pc # "failed" /\ Len(it.yielded) <= Len(prev.yielded))
        /\ (prev.pc = "failed" =>
              it.pc # "done" /\ Len(it.yielded) <= Len(prev.yielded))
        /\ (prev.pc = it.pc /\ it.pc \in {"done", "failed"} =>
              it.yielded = prev.yielded)

\* C6: every pass over an unchanged file, whether the pass before it
\* completed, failed or was abandoned, yields the same sequence of
\* documents from the first record on, and no step changes the reader's
\* num_docs, num_terms, num_nnz or transposed.
C6_Restartable ==
    [][(rd.state = "ready" => rd' = rd) /\ SamePasses']_vars

\* A second pass has completed with MaxDocs documents after a first pass
\* that was abandoned after its first document.
C6_Witness ==
    /\ npass = 2 /\ prev.pc = "closed" /\ Len(prev.yielded) = 1
    /\ it.pc = "done" /\ Len(it.yielded) = MaxDocs
    /\ it.yielded[1].val # <<>>

\* The doc_length field of the k-th record of the finished interleaved
\* file, as written, is overwritten with another value, from -1 to one more
\* than any document has: the records after it no longer start where the
\* sub-headers say.
Corrupt ==
    /\ kind # "MmReaderArray"
    /\ wr.outcome = "returned"
    /\ rd.state = "none"
    /\ cutAt = -1
    /\ file = wr.file
    /\ \E k \in 1..Len(corpus.docs), v \in (-1)..(MaxLen + 1) :
          LET at == records_end(file, 12, k - 1) + 4
          IN  /\ v # Len(corpus.docs[k])
              /\ file' = SubSeq(file, 1, at) \o pack_i(v) \o SubSeq(file, at + 5, Len(file))
    /\ UNCHANGED <<corpus, kind, wr, cutAt, rd, it, prev, npass>>

\* Interleaved files as written, cut short, or with a wrong doc_length.
InitAny == InitCut /\ kind # "MmReaderArray"

NextAny ==
    \/ WriteInterleaved
    \/ Truncate
    \/ Corrupt
    \/ Construct
    \/ StartPass
    \/ NextDoc

SpecAny == InitAny /\ [][NextAny]_vars

\* The other decoder of the interleaved layout.
OtherReader == IF kind = "MmReader1" THEN "MmReader2" ELSE "MmReader1"

\* A whole pass of reader class k over f: next() until the generator ends.
RECURSIVE full_pass(_, _, _, _)
full_pass(k, f, r, g) ==
    IF g.pc \in {"done", "failed"} THEN g ELSE full_pass(k, f, r, resume(k, f, r, g))

\* C11: on the same bytes and with the same transposed, MmReader1 and
\* MmReader2 yield the same sequence of documents and one fails exactly
\* when the other does: what a pass of one has yielded is a prefix of what
\* a whole pass of the other yields, and when the pass has ended, the
\* other's ends the same way after the same documents.
C11_InterleavedDecodersAgree ==
    (kind \in {"MmReader1", "MmReader2"} /\ rd.state = "ready") =>
        LET other == full_pass(OtherReader, file, rd,
                               [pc |-> "created", pos |-> 0, yielded |-> <<>>])
        IN  /\ IsPrefix(it.yielded, other.yielded)
            /\ (it.pc \in {"done", "failed"} =>
                  other.pc = it.pc /\ other.yielded = it.yielded)

\* A pass of MmReader1 with transposed=False that yielded a document of
\* two entries and then failed on a file cut inside the second record's
\* entries, after its first pair.
C11_Witness ==
    /\ kind = "MmReader1" /\ rd.state = "ready" /\ ~rd.transposed
    /\ CutShort /\ it.pc = "failed"
    /\ Len(it.yielded) = 1 /\ Len(it.yielded[1].val) = 2
    /\ cutAt > records_end(wr.file, 12, 1) + 16

====
